---- MODULE Spec2Model ----
(***************************************************************************)
(* Model of the messaging_api_wrapper package: the Email sender            *)
(* (src/email.py) and the WhatsApp sender                                  *)
(* (src/messaging_api_wrapper/whatsapp.py).                                *)
(*                                                                         *)
(* The two classes share no state and no code path, so each has its own    *)
(* specification: EmailSpec and WhatsAppSpec.  In both, a caller invokes   *)
(* an operation on one instance (the whole handler is one action, taking   *)
(* the instance from "idle" to "done" and recording the arguments, what    *)
(* the handler did to its collaborators and how it ended), looks at the    *)
(* result, and is then ready for the next call.                            *)
(*                                                                         *)
(* Python strings whose characters matter (addresses, phone numbers) are   *)
(* sequences of one-character strings; the others are TLA+ strings.        *)
(***************************************************************************)
EXTENDS Integers, Sequences, FiniteSets, TLC

VARIABLES
    \* ---- Email instance and its last send call
    env,          \* self.env: None or the templates directory of the Environment
    configured,   \* history: a renderer has been configured so far
    epc,          \* "idle" | "done"
    eargs,        \* arguments of the send call
    eoutcome,     \* how send ended: returned, or the exception raised
    calls,        \* the calls send made on the mail transport, in order
    sent,         \* the messages handed to server.send_message
    \* ---- WhatsApp instance and its last send_message call
    phone_number_prefix,  \* self.phone_number_prefix
    wpc,          \* "idle" | "done"
    wargs,        \* arguments of the send_message call
    requests,     \* the HTTP requests posted by the call (their JSON data)
    response,     \* what the transport gave for the request posted
    woutcome      \* how send_message ended: the dict returned, or the exception

evars == <<env, configured, epc, eargs, eoutcome, calls, sent>>
wvars == <<phone_number_prefix, wpc, wargs, requests, response, woutcome>>
vars == <<evars, wvars>>

\* Python's None, where a string is expected.
None == "None"

\* Bounds of the model.
MaxRecipients == 2
MaxPhoneLen == 3
MaxComponents == 2

(***************************************************************************)
(*                               Email                                     *)
(***************************************************************************)

\* Recipient addresses tried: accepted ones, one the pattern accepts only
\* because re.match anchors at the start alone, and rejected ones.
Addresses ==
    { <<"a", "@", "b", ".", "c">>,
      <<"a", ".", "b", "@", "c", ".", "d">>,
      <<"a", "@", "b", ".", "c", "@">>,
      <<>>,
      <<"a", "@", "b">>,
      <<"@", "b", ".", "c">>,
      <<"a", "@", ".", "c">>,
      <<"a", "b", ".", "c">> }

\* Sequences over S of length lo..hi.
SeqsOf(S, lo, hi) == UNION { [1..n -> S] : n \in lo..hi }

\* to_email: None, one address (a str), or a list of addresses.
ToEmails ==
    { [kind |-> "None", v |-> <<>>] }
    \cup { [kind |-> "str", v |-> <<a>>] : a \in Addresses }
    \cup { [kind |-> "list", v |-> l] : l \in SeqsOf(Addresses, 0, MaxRecipients) }

Bodies == { None, "", "Hello" }
Templates == { None, "", "welcome.html", "missing.html" }
Contexts == { None, "{name: Ann}" }
TemplateDirs == { "templates", "other" }
from_email == "me@example.org"

\* The template files a directory holds (FileSystemLoader).
TemplateFiles(dir) == IF dir = "templates" THEN { "welcome.html" } ELSE {}

\* template.render(context): the HTML a template gives for a context.
Render(template, ctx) ==
    IF ctx = "{}" THEN "<p>Hello </p>" ELSE "<p>Hello Ann</p>"

\* Outcomes of a call.
Returned == [raised |-> FALSE, type |-> "", text |-> ""]
Raise(type, text) == [raised |-> TRUE, type |-> type, text |-> text]

NoRecipient == Raise("EmailException", "Recipient email(s) must be provided.")
InvalidAddress ==
    Raise("EmailException", "Invalid email address. Please provide a valid email address.")
EnvNotInitialized ==
    Raise("EmailException", "Environment not initialized. Call Email.init_env() first.")

\* All characters of s[lo..hi] differ from '@'.
NoAt(s, lo, hi) == \A n \in lo..hi : s[n] # "@"

\* re.match(r"[^@]+@[^@]+\.[^@]+", email): the pattern matches a prefix of email.
ReMatch(email) ==
    \E i \in 1..Len(email) :
        /\ NoAt(email, 1, i)
        /\ i + 1 <= Len(email) /\ email[i + 1] = "@"
        /\ \E j \in (i + 2)..Len(email) :
              /\ NoAt(email, i + 2, j)
              /\ j + 1 <= Len(email) /\ email[j + 1] = "."
              /\ \E k \in (j + 2)..Len(email) : NoAt(email, j + 2, k)

\* Faulty variant of _validate_email: only asks for an '@' somewhere in the address.
validate_email_at_only(email) ==
    IF \A n \in 1..Len(email) : email[n] # "@" THEN InvalidAddress ELSE Returned

\* Email._validate_email: the exception raised, or Returned.
validate_email(email) == IF ~ReMatch(email) THEN InvalidAddress ELSE Returned

\* `not to_email`.
Falsy(to_email) ==
    \/ to_email.kind = "None"
    \/ to_email.kind = "str" /\ to_email.v[1] = <<>>
    \/ to_email.kind = "list" /\ to_email.v = <<>>

\* ', '.join(to_email)
RECURSIVE Join(_)
Join(l) ==
    IF l = <<>> THEN <<>>
    ELSE IF Len(l) = 1 THEN l[1]
    ELSE l[1] \o <<",", " ">> \o Join(Tail(l))

\* Email._get_template: [exc, content].
get_template(self_env, template, context) ==
    IF self_env = None
    THEN [exc |-> EnvNotInitialized, content |-> ""]
    ELSE IF template \notin TemplateFiles(self_env)
    THEN [exc |-> Raise("TemplateNotFound", template), content |-> ""]
    ELSE [exc |-> Returned,
          content |-> Render(template, IF context = None THEN "{}" ELSE context)]

\* The transport calls of send, in program order.
Steps == <<"SMTP", "starttls", "login", "send_message", "quit">>
Failures == { "none" } \cup { Steps[n] : n \in 1..Len(Steps) }
StepIndex(op) == CHOOSE n \in 1..Len(Steps) : Steps[n] = op

\* Faulty variant of the transport part: authenticates before the upgrade to TLS.
Deliver_login_first(fail) ==
    LET order == <<"SMTP", "login", "starttls", "send_message", "quit">>
        last == IF fail = "none" THEN Len(order)
                ELSE CHOOSE n \in 1..Len(order) : order[n] = fail
    IN  [n \in 1..last |-> [op |-> order[n], ok |-> order[n] # fail]]

\* The transport part of send: the calls run one after the other and the
\* first one that raises ends send; fail names the call that raises.
Deliver(fail) ==
    LET last == IF fail = "none" THEN Len(Steps) ELSE StepIndex(fail)
    IN  [n \in 1..last |-> [op |-> Steps[n], ok |-> Steps[n] # fail]]

\* Faulty variant of the content part: the body wins over the template.
ContentPart_body_first(body, template, content) ==
    IF body # None
    THEN [subtype |-> "plain", payload |-> body]
    ELSE [subtype |-> "html", payload |-> content]

\* The single content part attached to the message.
ContentPart(body, template, content) ==
    IF template \notin { None, "" }
    THEN [subtype |-> "html", payload |-> content]
    ELSE [subtype |-> "plain", payload |-> body]

\* Email.send: [outcome, calls, sent].
send(self_env, to_email, body, template, context, fail) ==
    LET nothing(exc) == [outcome |-> exc, calls |-> <<>>, sent |-> <<>>]
    IN
    IF Falsy(to_email) THEN nothing(NoRecipient)
    ELSE IF \E n \in 1..Len(to_email.v) : validate_email(to_email.v[n]).raised
    THEN nothing(InvalidAddress)
    ELSE
      LET t == IF template \notin { None, "" }
               THEN get_template(self_env, template, context)
               ELSE [exc |-> Returned, content |-> ""]
      IN
      IF t.exc.raised THEN nothing(t.exc)
      ELSE IF template \in { None, "" } /\ body = None
      THEN nothing(Raise("AttributeError", "'NoneType' object has no attribute 'encode'"))
      ELSE
        LET msg == [From |-> from_email,
                    To |-> Join(to_email.v),
                    parts |-> << ContentPart(body, template, t.content) >>]
            c == Deliver(fail)
        IN  [outcome |-> IF fail = "none" THEN Returned
                         ELSE Raise("SMTPException", fail),
             calls |-> c,
             sent |-> IF \E n \in 1..Len(c) : c[n].op = "send_message"
                      THEN << msg >> ELSE <<>>]

NoArgs == [to_email |-> [kind |-> "None", v |-> <<>>], body |-> None,
           template |-> None, context |-> None]

(***************************************************************************)
(*                              WhatsApp                                   *)
(***************************************************************************)

\* JSON values (and the Python values json gives for them), tagged by type.
J(t, b, n, s, a, o) == [t |-> t, b |-> b, n |-> n, s |-> s, a |-> a, o |-> o]
EmptyDict == <<>>
Null == J("null", FALSE, 0, "", <<>>, EmptyDict)
Bool(b) == J("bool", b, 0, "", <<>>, EmptyDict)
Num(n) == J("num", FALSE, n, "", <<>>, EmptyDict)
Str(s) == J("str", FALSE, 0, s, <<>>, EmptyDict)
Arr(a) == J("arr", FALSE, 0, "", a, EmptyDict)
Obj(o) == J("obj", FALSE, 0, "", <<>>, o)
\* A response body that is not JSON.
NotJson == J("notjson", FALSE, 0, "<html>Bad Gateway</html>", <<>>, EmptyDict)

\* Outcomes of send_message: the dict returned, or the exception raised.
WReturn(result) == [raised |-> FALSE, type |-> "", text |-> "", result |-> result]
WRaise(type, text) == [raised |-> TRUE, type |-> type, text |-> text, result |-> EmptyDict]
\* A value computed without raising, inside the handler.
Val(x) == [raised |-> FALSE, type |-> "", text |-> "", val |-> x]
Exc(type, text) == [raised |-> TRUE, type |-> type, text |-> text, val |-> Null]

\* bool(x)
Truthy(x) ==
    CASE x.t = "null" -> FALSE
      [] x.t = "bool" -> x.b
      [] x.t = "num" -> x.n # 0
      [] x.t = "str" -> x.s # ""
      [] x.t = "arr" -> x.a # <<>>
      [] x.t = "obj" -> DOMAIN x.o # {}

\* `key in x`.  The JSON strings of the model either are the key or do not
\* hold it, so the substring test on a str is equality here.
Contains(key, x) ==
    CASE x.t = "obj" -> Val(Bool(key \in DOMAIN x.o))
      [] x.t = "arr" -> Val(Bool(\E n \in 1..Len(x.a) : x.a[n] = Str(key)))
      [] x.t = "str" -> Val(Bool(x.s = key))
      [] OTHER -> Exc("TypeError", "argument is not iterable")

\* x[key], key a str
GetItem(x, key) ==
    CASE x.t = "obj" ->
            IF key \in DOMAIN x.o THEN Val(x.o[key]) ELSE Exc("KeyError", key)
      [] x.t \in { "arr", "str" } -> Exc("TypeError", "indices must be integers")
      [] OTHER -> Exc("TypeError", "object is not subscriptable")

\* x[0].  The non-empty JSON strings of the model have one character, so the
\* first character of a str is the str.
Index0(x) ==
    CASE x.t = "arr" ->
            IF x.a # <<>> THEN Val(x.a[1]) ELSE Exc("IndexError", "list index out of range")
      [] x.t = "str" ->
            IF x.s # "" THEN Val(x) ELSE Exc("IndexError", "string index out of range")
      [] x.t = "obj" -> Exc("KeyError", "0")
      [] OTHER -> Exc("TypeError", "object is not subscriptable")

\* x.get(key, default): only a dict has get.
DictGet(x, key, default) ==
    IF x.t = "obj"
    THEN Val(IF key \in DOMAIN x.o THEN x.o[key] ELSE default)
    ELSE Exc("AttributeError", "object has no attribute 'get'")

\* Characters of phone numbers and prefixes.
PhoneChars == { "0", "+", "9" }
ExamplePhone == <<"0", "9", "8", "7", "6", "5", "4", "3", "2", "1">>
Phones == SeqsOf(PhoneChars, 0, MaxPhoneLen) \cup { ExamplePhone }
Prefixes == { <<"+", "9", "1">>, <<"+", "1">> }

\* Elements of components: JSON objects and values that are not.
ComponentValues == { Obj([type |-> Str("body")]), Str("not-an-object"), Num(1) }
\* components: None, a list, or (as the annotation has it) a dict.
Components ==
    { [kind |-> "None", v |-> <<>>] }
    \cup { [kind |-> "list", v |-> l] : l \in SeqsOf(ComponentValues, 0, MaxComponents) }
    \cup { [kind |-> "dict", v |-> <<>>], [kind |-> "dict", v |-> <<Str("type")>>] }

DefaultSuccess == "Message sent successfully."
DefaultFailed == "Failed to send message."
NoDetails == "Message sent, but no message details found."
wapaId == "1234567890"

WArgs ==
    [ recipient_phone : Phones,
      template_name : { "hello_world" },
      data_type : { "template", "text" },
      components : Components,
      language_code : { "en" },
      success_message : { DefaultSuccess },
      failed_message : { DefaultFailed, "custom failure" } ]

\* First entries of `messages`.
Entries ==
    { Obj([id |-> Str("wamid.abc"), message_status |-> Str("accepted")]),
      Obj([id |-> Str("wamid.abc"), message_status |-> Str("rejected")]),
      Obj([id |-> Str("wamid.abc")]),
      Obj([message_status |-> Str("accepted")]),
      Obj(EmptyDict),
      Str("x"), Null, Num(7) }
MessagesValues ==
    { Arr(<<e>>) : e \in Entries }
    \cup { Arr(<<>>), Arr(<<Obj([id |-> Str("wamid.abc")]), Str("x")>>),
           Null, Str("x"), Str(""), Num(0), Num(7), Obj(EmptyDict),
           Obj([id |-> Str("wamid.abc")]) }
ErrorValues ==
    { Obj([message |-> Str("Invalid token")]), Obj([code |-> Num(190)]),
      Obj([message |-> Null]), Obj(EmptyDict), Str("denied"), Null, Arr(<<>>) }
ObjectBodies ==
    { Obj(EmptyDict), Obj([status |-> Str("ok")]) }
    \cup { Obj([messages |-> m]) : m \in MessagesValues }
    \cup { Obj([error |-> e]) : e \in ErrorValues }
    \cup { Obj([messages |-> Arr(<<e>>), error |-> Obj([message |-> Str("Invalid token")])]) :
             e \in { Obj([id |-> Str("wamid.abc"), message_status |-> Str("accepted")]) } }
NonObjectBodies ==
    { Null, Bool(TRUE), Num(1), Str("ok"), Str("messages"), Arr(<<>>),
      Arr(<<Str("messages")>>), Arr(<<Obj(EmptyDict)>>) }
ResponseBodies == { NotJson } \cup ObjectBodies \cup NonObjectBodies
StatusCodes == { 200, 403 }

\* No request was posted.
NoResponse == [kind |-> "none", status_code |-> 0, body |-> NotJson]

\* What requests.post and response.json() can give.
HttpOutcomes ==
    { [kind |-> k, status_code |-> 0, body |-> NotJson] : k \in { "ConnectionError", "Timeout" } }
    \cup [ kind : { "response" }, status_code : StatusCodes, body : ResponseBodies ]

\* str(e) of the exceptions of the transport and of response.json().
ExcText(type) ==
    CASE type = "ConnectionError" -> "Connection refused"
      [] type = "Timeout" -> "Read timed out."
      [] type = "JSONDecodeError" -> "Expecting value: line 1 column 1 (char 0)"
      [] OTHER -> type

\* Faulty variant of lstrip('0'): removes one leading zero only.
Lstrip0_once(s) == IF s # <<>> /\ Head(s) = "0" THEN Tail(s) ELSE s

\* s.lstrip('0')
RECURSIVE Lstrip0(_)
Lstrip0(s) == IF s # <<>> /\ Head(s) = "0" THEN Lstrip0(Tail(s)) ELSE s

\* s.startswith("+")
StartsWithPlus(s) == s # <<>> /\ Head(s) = "+"

\* `template_params if template_params else []`, as the sequence iterated
\* (iterating a dict gives its keys).
ComponentsOrEmpty(template_params) == template_params.v

\* Faulty variant of _create_data: looks at the first component only.
create_data_first_only(prefix, to, template_name, template_params, language_code, data_type) ==
    LET components == ComponentsOrEmpty(template_params)
    IN
    IF components # <<>> /\ components[1].t # "obj"
    THEN [exc |-> WRaise("ValueError",
                         "Each component in 'template_params' must be a JSON object."),
          data |-> EmptyDict]
    ELSE [exc |-> WReturn(EmptyDict),
          data |->
            (data_type :> [name |-> template_name,
                           language |-> [code |-> language_code],
                           components |-> components])
            @@ [messaging_product |-> "whatsapp",
                wabaId |-> wapaId,
                recipient_type |-> "individual",
                to |-> IF ~StartsWithPlus(to) THEN prefix \o to ELSE to,
                type |-> data_type]]

\* WhatsApp._create_data: [exc, data].
create_data(prefix, to, template_name, template_params, language_code, data_type) ==
    LET components == ComponentsOrEmpty(template_params)
    IN
    IF ~(\A n \in 1..Len(components) : components[n].t = "obj")
    THEN [exc |-> WRaise("ValueError",
                         "Each component in 'template_params' must be a JSON object."),
          data |-> EmptyDict]
    ELSE [exc |-> WReturn(EmptyDict),
          data |->
            (data_type :> [name |-> template_name,
                           language |-> [code |-> language_code],
                           components |-> components])
            @@ [messaging_product |-> "whatsapp",
                wabaId |-> wapaId,
                recipient_type |-> "individual",
                to |-> IF ~StartsWithPlus(to) THEN prefix \o to ELSE to,
                type |-> data_type]]

Failure(text) == WReturn([status |-> Bool(FALSE), message |-> text])

\* The status_code == 200 branch of send_message.
interpret_200(response_data, success_message) ==
    LET has == Contains("messages", response_data)
    IN
    IF has.raised THEN WRaise(has.type, has.text)
    ELSE
      LET item == IF has.val.b THEN GetItem(response_data, "messages") ELSE Val(Bool(FALSE))
      IN
      IF item.raised THEN WRaise(item.type, item.text)
      ELSE IF Truthy(item.val)
      THEN
        LET first_message == Index0(item.val)
        IN
        IF first_message.raised THEN WRaise(first_message.type, first_message.text)
        ELSE
          LET request_id == DictGet(first_message.val, "id", Null)
              status == DictGet(first_message.val, "message_status", Null)
          IN
          IF request_id.raised THEN WRaise(request_id.type, request_id.text)
          ELSE WReturn([status |-> Bool(TRUE),
                        message |-> Str(success_message),
                        request_id |-> request_id.val,
                        message_status |-> IF status.val = Str("accepted")
                                           THEN Str("sent") ELSE Str("failed")])
      ELSE WReturn([status |-> Bool(TRUE), message |-> Str(NoDetails)])

\* The else branch (status_code != 200) of send_message.
interpret_error(response_data, failed_message) ==
    LET error == DictGet(response_data, "error", Obj(EmptyDict))
    IN
    IF error.raised THEN WRaise(error.type, error.text)
    ELSE
      LET error_message == DictGet(error.val, "message", Str(failed_message))
      IN
      IF error_message.raised THEN WRaise(error_message.type, error_message.text)
      ELSE Failure(error_message.val)

\* The body of the try block of send_message.
try_body(http, success_message, failed_message) ==
    IF http.kind # "response" THEN WRaise(http.kind, ExcText(http.kind))
    ELSE IF http.body = NotJson THEN WRaise("JSONDecodeError", ExcText("JSONDecodeError"))
    ELSE IF http.status_code = 200 THEN interpret_200(http.body, success_message)
    ELSE interpret_error(http.body, failed_message)

\* The exceptions `except (requests.RequestException, ValueError)` catches.
Caught == { "ConnectionError", "Timeout", "JSONDecodeError", "ValueError" }

\* The except clause of send_message.
except_clause(r) ==
    IF r.raised /\ r.type \in Caught THEN Failure(Str(r.text)) ELSE r

\* WhatsApp.send_message: [outcome, requests].
send_message(prefix, a, http) ==
    LET recipient_phone == Lstrip0(a.recipient_phone)
        d == create_data(prefix, recipient_phone, a.template_name, a.components,
                         a.language_code, a.data_type)
    IN
    IF d.exc.raised THEN [outcome |-> d.exc, requests |-> <<>>]
    ELSE [outcome |-> except_clause(try_body(http, a.success_message, a.failed_message)),
          requests |-> << d.data >>]

NoWArgs ==
    [recipient_phone |-> <<>>, template_name |-> "", data_type |-> "",
     components |-> [kind |-> "None", v |-> <<>>], language_code |-> "",
     success_message |-> "", failed_message |-> ""]

(***************************************************************************)
(*                     Email: the state machine                            *)
(***************************************************************************)

EmailIdle ==
    /\ epc = "idle" /\ eargs = NoArgs /\ eoutcome = Returned
    /\ calls = <<>> /\ sent = <<>>
WhatsAppIdle ==
    /\ wpc = "idle" /\ wargs = NoWArgs /\ requests = <<>>
    /\ response = NoResponse
    /\ woutcome = WReturn(EmptyDict)

\* Email.__init__: self.env is set only for a truthy templates_dir.  The
\* WhatsApp instance is left alone in this specification.
EmailInit ==
    /\ \E templates_dir \in { None, "" } \cup TemplateDirs :
          /\ env = IF templates_dir \in { None, "" } THEN None ELSE templates_dir
          /\ configured = (templates_dir \in TemplateDirs)
    /\ EmailIdle
    /\ phone_number_prefix = <<"+", "9", "1">> /\ WhatsAppIdle

\* Faulty variant of init_env: builds the Environment but does not store it.
init_env_not_stored ==
    /\ epc = "idle"
    /\ configured' = TRUE
    /\ UNCHANGED <<env, epc, eargs, eoutcome, calls, sent>>
    /\ UNCHANGED wvars

\* Email.init_env
init_env ==
    /\ epc = "idle"
    /\ \E templates_dir \in TemplateDirs : env' = templates_dir
    /\ configured' = TRUE
    /\ UNCHANGED <<epc, eargs, eoutcome, calls, sent>>
    /\ UNCHANGED wvars

\* A call of Email.send, from entry to return or raise.
Send ==
    /\ epc = "idle"
    /\ \E to_email \in ToEmails, body \in Bodies, template \in Templates,
          context \in Contexts, fail \in Failures :
          LET r == send(env, to_email, body, template, context, fail)
          IN  /\ eargs' = [to_email |-> to_email, body |-> body,
                           template |-> template, context |-> context]
              /\ eoutcome' = r.outcome
              /\ calls' = r.calls
              /\ sent' = r.sent
    /\ epc' = "done"
    /\ UNCHANGED <<env, configured>>
    /\ UNCHANGED wvars

\* The caller has seen the result and is ready for the next call.
EmailReturn ==
    /\ epc = "done"
    /\ epc' = "idle"
    /\ eargs' = NoArgs
    /\ eoutcome' = Returned
    /\ calls' = <<>>
    /\ sent' = <<>>
    /\ UNCHANGED <<env, configured>>
    /\ UNCHANGED wvars

EmailNext == init_env \/ Send \/ EmailReturn

EmailSpec == EmailInit /\ [][EmailNext]_vars

(***************************************************************************)
(*                    WhatsApp: the state machine                          *)
(***************************************************************************)

\* WhatsApp.__init__.  The Email instance is left alone in this specification.
WhatsAppInit ==
    /\ phone_number_prefix \in Prefixes
    /\ WhatsAppIdle
    /\ env = None /\ configured = FALSE /\ EmailIdle

\* A call of WhatsApp.send_message, from entry to return or raise.
SendMessage ==
    /\ wpc = "idle"
    /\ \E a \in WArgs, http \in HttpOutcomes :
          LET r == send_message(phone_number_prefix, a, http)
          IN  /\ wargs' = a
              /\ woutcome' = r.outcome
              /\ requests' = r.requests
              /\ response' = IF r.requests = <<>> THEN NoResponse ELSE http
    /\ wpc' = "done"
    /\ UNCHANGED phone_number_prefix
    /\ UNCHANGED evars

\* The caller has seen the result and is ready for the next call.
WhatsAppReturn ==
    /\ wpc = "done"
    /\ wpc' = "idle"
    /\ wargs' = NoWArgs
    /\ woutcome' = WReturn(EmptyDict)
    /\ requests' = <<>>
    /\ response' = NoResponse
    /\ UNCHANGED phone_number_prefix
    /\ UNCHANGED evars

WhatsAppNext == SendMessage \/ WhatsAppReturn

WhatsAppSpec == WhatsAppInit /\ [][WhatsAppNext]_vars

(***************************************************************************)
(*                          Claims: Email                                  *)
(***************************************************************************)

\* The recipients of the call are given and all match the pattern.
ValidRecipients ==
    /\ ~Falsy(eargs.to_email)
    /\ \A n \in 1..Len(eargs.to_email.v) : ReMatch(eargs.to_email.v[n])
\* The recipients of the call hold an address that fails the pattern.
SomeInvalidRecipient ==
    /\ eargs.to_email.kind # "None"
    /\ \E n \in 1..Len(eargs.to_email.v) : ~ReMatch(eargs.to_email.v[n])
\* `if template:`
TemplateGiven == eargs.template \notin { None, "" }
SessionOpened == \E n \in 1..Len(calls) : calls[n].op = "SMTP" /\ calls[n].ok

C2_SessionAlwaysTornDown ==
    (epc = "done" /\ SessionOpened) =>
        \E n \in 1..Len(calls) : calls[n].op = "quit"

\* C5: a send with valid recipients and a template given raises the
\* "environment not initialized" error exactly when no renderer has been
\* configured so far (at construction or by an earlier init_env), and then
\* makes no call on the mail transport.
C5_ConfigErrorIffUnconfigured ==
    (epc = "done" /\ ValidRecipients /\ TemplateGiven) =>
        /\ (eoutcome = EnvNotInitialized) <=> ~configured
        /\ eoutcome = EnvNotInitialized => calls = <<>> /\ sent = <<>>

\* C5 witness: a template-based send on an instance never configured.
C5_Witness ==
    /\ epc = "done" /\ ValidRecipients /\ TemplateGiven
    /\ ~configured
    /\ eoutcome = EnvNotInitialized

\* C9: the message handed to the transport has exactly one content part:
\* html holding the rendered template when a template is given (whatever
\* body is), plain holding body itself otherwise.
C9_SingleContentPart ==
    epc = "done" =>
        /\ Len(sent) <= 1
        /\ \A n \in 1..Len(sent) :
              /\ Len(sent[n].parts) = 1
              /\ IF TemplateGiven
                 THEN /\ sent[n].parts[1].subtype = "html"
                      /\ sent[n].parts[1].payload =
                            Render(eargs.template,
                                   IF eargs.context = None THEN "{}" ELSE eargs.context)
                 ELSE /\ sent[n].parts[1].subtype = "plain"
                      /\ sent[n].parts[1].payload = eargs.body
                      /\ eargs.body # None

\* C9 witness: a template and a body are both given and the message is sent.
C9_Witness ==
    /\ epc = "done" /\ TemplateGiven /\ eargs.body = "Hello"
    /\ Len(sent) = 1 /\ sent[1].parts[1].subtype = "html"

\* C10: the transport calls of one send are a prefix of connect, starttls,
\* login, send_message, quit, each at most once; nothing follows a call
\* that failed; the message is transmitted only after starttls and login
\* have succeeded.
C10_TransportOrder ==
    epc = "done" =>
        LET order == <<"SMTP", "starttls", "login", "send_message", "quit">>
        IN  /\ Len(calls) <= Len(order)
            /\ \A n \in 1..Len(calls) :
                  /\ calls[n].op = order[n]
                  /\ n < Len(calls) => calls[n].ok
            /\ Len(sent) <= 1
            /\ sent # <<>> =>
                  /\ \E n \in 1..Len(calls) : calls[n].op = "send_message"
                  /\ \A n \in 1..Len(calls) :
                        calls[n].op = "send_message" =>
                            /\ \E m \in 1..(n - 1) : calls[m].op = "starttls" /\ calls[m].ok
                            /\ \E m \in 1..(n - 1) : calls[m].op = "login" /\ calls[m].ok

\* C10 witness: a send that failed at login, after connect and starttls.
C10_Witness ==
    /\ epc = "done"
    /\ Len(calls) = 3 /\ calls[3].op = "login" /\ ~calls[3].ok
    /\ sent = <<>>
    /\ eoutcome.raised

(***************************************************************************)
(*                         Claims: WhatsApp                                *)
(***************************************************************************)

\* The components of the call pass the validation of the payload.
ComponentsPass ==
    \A n \in 1..Len(wargs.components.v) : wargs.components.v[n].t = "obj"
GotResponse == response.kind = "response"

\* C3: with components that pass validation, send_message never raises,
\* whatever the transport and the parsing of the response give; a transport
\* failure or a body that is not JSON gives {status: false, message: text}.
C3_NeverRaises ==
    (wpc = "done" /\ ComponentsPass) =>
        /\ ~woutcome.raised
        /\ (response.kind \in { "ConnectionError", "Timeout" }) =>
              woutcome.result = [status |-> Bool(FALSE),
                                 message |-> Str(ExcText(response.kind))]
        /\ (GotResponse /\ response.body = NotJson) =>
              woutcome.result = [status |-> Bool(FALSE),
                                 message |-> Str(ExcText("JSONDecodeError"))]

\* C4: a non-empty components sequence with an element that is not an
\* object makes send_message raise the validation error to the caller, and
\* no request is posted.
C4_InvalidComponentsRaise ==
    (/\ wpc = "done"
     /\ wargs.components.kind = "list"
     /\ \E n \in 1..Len(wargs.components.v) : wargs.components.v[n].t # "obj") =>
        /\ woutcome.raised
        /\ woutcome.type = "ValueError"
        /\ requests = <<>>
        /\ response = NoResponse

\* C4 witness: an object followed by a string.
C4_Witness ==
    /\ wpc = "done"
    /\ wargs.components =
          [kind |-> "list", v |-> <<Obj([type |-> Str("body")]), Str("not-an-object")>>]
    /\ woutcome.raised
    /\ requests = <<>>

\* C6: the `to` field of the payload is the phone with all its leading '0'
\* removed, preceded by the configured prefix unless it then starts with '+'.
C6_PhoneNormalized ==
    (wpc = "done" /\ requests # <<>>) =>
        LET p == wargs.recipient_phone
            to == requests[1].to
        IN  /\ Len(requests) = 1
            /\ \E k \in 0..Len(p) :
                  /\ \A n \in 1..k : p[n] = "0"
                  /\ k < Len(p) => p[k + 1] # "0"
                  /\ LET rest == SubSeq(p, k + 1, Len(p))
                     IN  IF rest # <<>> /\ rest[1] = "+"
                         THEN to = rest
                         ELSE to = phone_number_prefix \o rest
            /\ (p = ExamplePhone /\ phone_number_prefix = <<"+", "9", "1">>) =>
                  to = <<"+", "9", "1", "9", "8", "7", "6", "5", "4", "3", "2", "1">>

\* C6 witness: zeros before a '+': the zeros go and no prefix is added.
C6_Witness ==
    /\ wpc = "done"
    /\ wargs.recipient_phone = <<"0", "0", "+">>
    /\ requests # <<>>
    /\ requests[1].to = <<"+">>

\* C7: an HTTP 200 response with a JSON object body gives status=true: with
\* a non-empty `messages` array, the success message, the first entry's id
\* and "sent"/"failed"; with `messages` absent or empty, the "no message
\* details" result without request_id and message_status.
C7_Http200Result ==
    (wpc = "done" /\ GotResponse /\ response.status_code = 200
       /\ response.body.t = "obj") =>
        /\ ~woutcome.raised
        /\ LET b == response.body.o
               r == woutcome.result
           IN  IF "messages" \in DOMAIN b /\ b.messages.t = "arr" /\ b.messages.a # <<>>
               THEN LET first == b.messages.a[1]
                    IN  /\ DOMAIN r = { "status", "message", "request_id", "message_status" }
                        /\ r.status = Bool(TRUE)
                        /\ r.message = Str(wargs.success_message)
                        /\ first.t = "obj"
                        /\ r.request_id =
                              (IF "id" \in DOMAIN first.o THEN first.o.id ELSE Null)
                        /\ r.message_status =
                              (IF "message_status" \in DOMAIN first.o
                                  /\ first.o.message_status = Str("accepted")
                               THEN Str("sent") ELSE Str("failed"))
               ELSE r = [status |-> Bool(TRUE), message |-> Str(NoDetails)]

\* C8: a response whose status code is not 200 gives {status: false,
\* message: M}, M the body's error.message when the body has it and
\* failed_message otherwise; never status=true.
C8_Non200Result ==
    (wpc = "done" /\ GotResponse /\ response.status_code # 200
       /\ response.body # NotJson) =>
        /\ ~woutcome.raised
        /\ LET b == response.body
               M == IF /\ b.t = "obj"
                       /\ "error" \in DOMAIN b.o
                       /\ b.o.error.t = "obj"
                       /\ "message" \in DOMAIN b.o.error.o
                    THEN b.o.error.o.message
                    ELSE Str(wargs.failed_message)
           IN  woutcome.result = [status |-> Bool(FALSE), message |-> M]

====
